---------------------------- MODULE Spec2Model ----------------------------
(***************************************************************************)
(* dynparser: a dynamic PEG engine.                                        *)
(*                                                                         *)
(* The evaluator of src/src/parser/expression/mod.rs is modelled as a      *)
(* machine with an explicit stack: one frame per active call of            *)
(* parse_partial, one step per iteration of a tail_call closure.  The rule *)
(* set is built with SetOfRules::add and then parsed against.              *)
(***************************************************************************)
EXTENDS Integers, Sequences, FiniteSets

VARIABLES
    rules,      \* SetOfRules.0 : rule name -> Expression
    rules0,     \* history: the mapping SetOfRules::new was given
    added,      \* history: per rule name, the expression of its last add
    text,       \* the input of the running parse, a sequence of characters
    peg,        \* history: the grammar text the rule set was compiled from
    pegparse,   \* history: what the parse of that grammar text returned
    phase,      \* "new" | "peg" | "failed" | "build" | "validate" | "run" |
                \* "done" | "panic"
    stack,      \* the active calls, innermost last
    ret,        \* the value being returned to the innermost active call
    last,       \* history: the most recently completed evaluation
    result      \* what parse returned

vars == <<rules, rules0, added, text, peg, pegparse, phase, stack, ret, last, result>>

-----------------------------------------------------------------------------
(* Bounds of the model *)

MaxLen == 2         \* length of the generated input texts
MaxKids == 2        \* children of a generated And / Or
MaxRep == 2         \* the min and max of a generated Repeat
MaxCount == 3       \* iterations a Repeat is followed for
MaxPegCount == 20   \* the same while a grammar text is parsed
MaxAtomLen == 3     \* length of the texts the atoms of atom.rs are tried on
MaxLitLen == 2      \* length of the literals tried on them
MaxAtomCount == 7   \* iterations a Repeat of expression.rs is followed for
MaxTermLen == 3     \* length of the short texts parse_peg is run on to its end

-----------------------------------------------------------------------------
(* Values *)

None == <<>>
Some(x) == <<x>>

Position(n, row, col) == [n |-> n, row |-> row, col |-> col]

init_pos == Position(0, 0, 0)

(* A result: Ok(Status) or Err(Error); started is the Started that parse_expr *)
(* pairs with an Ok Status (None in a ResultPartial).                        *)
(* nodes is what the evaluation adds to the syntax tree.                     *)
Error_from_status(pos, descr) ==
    [kind |-> "err", pos |-> pos, descr |-> descr, started |-> None, nodes |-> <<>>]

Ok(pos) == [kind |-> "ok", pos |-> pos, descr |-> <<>>, started |-> None, nodes |-> <<>>]

NoRet == [kind |-> "none", pos |-> init_pos, descr |-> <<>>, started |-> None, nodes |-> <<>>]

IsOk(res) == res.kind = "ok"

IsErr(res) == res.kind = "err"

(* the Status or the Error of a result, without Started and syntax tree *)
Partial(res) == [res EXCEPT !.started = None, !.nodes = <<>>]

(* ast::Node *)
Node_Val(v) == [kind |-> "Val", name |-> "", val |-> v, nodes |-> <<>>]

Node_Rule(name, nodes) == [kind |-> "Rule", name |-> name, val |-> <<>>, nodes |-> nodes]

(* enum Expression, one record shape for every variant *)
Expr(tag, lit, ranges, kids, min, max, name) ==
    [tag |-> tag, lit |-> lit, ranges |-> ranges, kids |-> kids, min |-> min,
     max |-> max, name |-> name]

(* Simple(Atom): a literal, any character, a class of characters (chlist   *)
(* in lit, the inclusive bounds in ranges)                                  *)
Lit(s) == Expr("Literal", s, <<>>, <<>>, 0, None, "")

Dot == Expr("Dot", <<>>, <<>>, <<>>, 0, None, "")

Match(chlist, ranges) == Expr("Match", chlist, ranges, <<>>, 0, None, "")

And(kids) == Expr("And", <<>>, <<>>, kids, 0, None, "")

Or(kids) == Expr("Or", <<>>, <<>>, kids, 0, None, "")

Not(e) == Expr("Not", <<>>, <<>>, <<e>>, 0, None, "")

Repeat(e, min, max) == Expr("Repeat", <<>>, <<>>, <<e>>, min, max, "")

RuleName(name) == Expr("RuleName", <<>>, <<>>, <<>>, 0, None, name)

NoExpr == Expr("none", <<>>, <<>>, <<>>, 0, None, "")

-----------------------------------------------------------------------------
(* Atoms *)

advance(pos, ch) ==
    IF ch = "\n" THEN Position(pos.n + 1, pos.row + 1, 0)
    ELSE Position(pos.n + 1, pos.row, pos.col + 1)

RECURSIVE atom_literal(_, _, _)
atom_literal(txt, pos, lit) ==
    IF lit = <<>> THEN Ok(pos)
    ELSE IF pos.n < Len(txt) /\ txt[pos.n + 1] = Head(lit)
         THEN atom_literal(txt, advance(pos, Head(lit)), Tail(lit))
         ELSE Error_from_status(pos, <<"literal">>)

atom_dot(txt, pos) ==
    IF pos.n < Len(txt) THEN Ok(advance(pos, txt[pos.n + 1]))
    ELSE Error_from_status(pos, <<"dot">>)

(* the characters with codes 32 to 95, and those with codes 97 to 126 *)
UpperChars ==
    <<" ", "!", "\"", "#", "$", "%", "&", "'", "(", ")", "*", "+",
      ",", "-", ".", "/", "0", "1", "2", "3", "4", "5", "6", "7",
      "8", "9", ":", ";", "<", "=", ">", "?", "@", "A", "B", "C",
      "D", "E", "F", "G", "H", "I", "J", "K", "L", "M", "N", "O",
      "P", "Q", "R", "S", "T", "U", "V", "W", "X", "Y", "Z", "[",
      "\\", "]", "^", "_">>

LowerChars ==
    <<"a", "b", "c", "d", "e", "f", "g", "h", "i", "j", "k", "l",
      "m", "n", "o", "p", "q", "r", "s", "t", "u", "v", "w", "x",
      "y", "z", "{", "|", "}", "~">>

IndexOf(seq, x) == CHOOSE i \in 1..Len(seq) : seq[i] = x

char_code(ch) ==
    CASE ch = "\n" -> 10
      [] ch = "\r" -> 13
      [] \E i \in 1..Len(UpperChars) : UpperChars[i] = ch -> 31 + IndexOf(UpperChars, ch)
      [] \E i \in 1..Len(LowerChars) : LowerChars[i] = ch -> 96 + IndexOf(LowerChars, ch)

in_class(ch, e) ==
    \/ \E i \in 1..Len(e.lit) : e.lit[i] = ch
    \/ \E i \in 1..Len(e.ranges) :
          char_code(e.ranges[i][1]) <= char_code(ch) /\ char_code(ch) <= char_code(e.ranges[i][2])

atom_match(txt, pos, e) ==
    IF pos.n < Len(txt) /\ in_class(txt[pos.n + 1], e)
    THEN Ok(advance(pos, txt[pos.n + 1]))
    ELSE Error_from_status(pos, <<"match">>)

atom_parse(txt, pos, e) ==
    CASE e.tag = "Literal" -> atom_literal(txt, pos, e.lit)
      [] e.tag = "Dot" -> atom_dot(txt, pos)
      [] e.tag = "Match" -> atom_match(txt, pos, e)

-----------------------------------------------------------------------------
(* SetOfRules *)

EmptyRules == [x \in {} |-> NoExpr]

(* add, keeping the expression a name already has *)
add_if_absent(self, name, expr) ==
    [x \in (DOMAIN self) \cup {name} |-> IF x \in DOMAIN self THEN self[x] ELSE expr]

add(self, name, expr) ==
    [x \in (DOMAIN self) \cup {name} |-> IF x = name THEN expr ELSE self[x]]

-----------------------------------------------------------------------------
(* The stack of active calls *)

(* One frame: tag is the function the call is in ("call": parse_partial is  *)
(* about to dispatch on e); st, rest, err and k are the accumulator of its  *)
(* tail_call closure; st0 and log are history: the Status the call started *)
(* from and the calls it has made, with their arguments and results; nodes *)
(* are the nodes of the syntax tree its successful calls produced.         *)
Frame(tag, e, st, rest, err, k, started) ==
    [tag |-> tag, e |-> e, st |-> st, st0 |-> st, rest |-> rest, err |-> err,
     k |-> k, started |-> started, log |-> <<>>, nodes |-> <<>>]

(* parse_partial(st, e) is about to run; started is Some(st.n) when it was  *)
(* called through parse_expr                                                *)
CallFrame(e, st, started) == Frame("call", e, st, <<>>, None, 0, started)

(* the call f has dispatched into the function tag, with its accumulator    *)
Enter(f, tag, rest) == [f EXCEPT !.tag = tag, !.rest = rest]

Top == stack[Len(stack)]

Pop == SubSeq(stack, 1, Len(stack) - 1)

Logged(f, e, st) == [f EXCEPT !.log = Append(@, [e |-> e, st |-> st, res |-> NoRet])]

Answered(f, res) ==
    [f EXCEPT !.log[Len(f.log)].res = res,
              !.nodes = IF IsOk(res) THEN @ \o res.nodes ELSE @]

(* the nodes of a successful evaluation: an atom gives the text it matched, *)
(* a rule reference a Rule node over the nodes of its expression, Not       *)
(* nothing, And, Or and Repeat the nodes of their children                  *)
ast_nodes(f, res) ==
    CASE f.tag = "call" -> <<Node_Val(SubSeq(text, f.st0.n + 1, res.pos.n))>>
      [] f.tag = "rule" -> <<Node_Rule(f.e.name, f.nodes)>>
      [] f.tag = "not" -> <<>>
      [] OTHER -> f.nodes

with_ast(f, res) == IF IsOk(res) THEN [res EXCEPT !.nodes = ast_nodes(f, res)] ELSE res

NoEval == [e |-> NoExpr, st |-> init_pos, res |-> NoRet, log |-> <<>>]

(* what parse_expr makes of the result of parse_partial *)
parse_expr_after(started, res) ==
    IF IsOk(res) /\ started # None THEN [res EXCEPT !.started = Some(res.pos.n)] ELSE res

parse_expr(started, res) ==
    IF IsOk(res) THEN [res EXCEPT !.started = started] ELSE res

(* the innermost call returns res to its caller *)
Return(f, res) ==
    /\ stack' = Pop
    /\ ret' = parse_expr(f.started, with_ast(f, res))
    /\ last' = [e |-> f.e, st |-> f.st0, res |-> parse_expr(f.started, with_ast(f, res)),
                log |-> f.log]

(* the innermost call, now in state f, calls parse_partial(st, e) *)
CallPartial(f, e, st) ==
    /\ stack' = Append(Pop, Logged(f, e, st)) \o <<CallFrame(e, st, None)>>
    /\ ret' = NoRet
    /\ UNCHANGED last

(* the innermost call, now in state f, calls parse_expr(st, e) *)
CallExpr(f, e, st) ==
    /\ stack' = Append(Pop, Logged(f, e, st)) \o <<CallFrame(e, st, Some(st.n))>>
    /\ ret' = NoRet
    /\ UNCHANGED last

(* the innermost call goes round its tail_call loop with accumulator f *)
Loop(f) ==
    /\ stack' = Append(Pop, f)
    /\ ret' = NoRet
    /\ UNCHANGED last

Running(tag) == phase \in {"run", "peg", "validate"} /\ stack # <<>> /\ Top.tag = tag

Pending == ret.kind # "none"

-----------------------------------------------------------------------------
(* The closures of the evaluators, as functions of the accumulator and of   *)
(* the result of the call they made                                         *)

TailCall_Call(acc) == [tc |-> "Call", acc |-> acc, res |-> NoRet]

TailCall_Return(acc, res) == [tc |-> "Return", acc |-> acc, res |-> res]

(* parse_and_match, not threading the Status: every child starts where the  *)
(* And started                                                              *)
parse_and_match_nothread(acc, result_parse) ==
    IF IsOk(result_parse)
    THEN TailCall_Call([acc EXCEPT !.rest = Tail(acc.rest)])
    ELSE TailCall_Return(acc, result_parse)

parse_and_match(acc, result_parse) ==
    IF IsOk(result_parse)
    THEN TailCall_Call([acc EXCEPT !.st = result_parse.pos, !.rest = Tail(acc.rest)])
    ELSE TailCall_Return(acc, result_parse)

(* deep_err, keeping the error of the alternative tried last *)
deep_err_last(oe1, e2) == Some(e2)

deep_err(oe1, e2) ==
    IF oe1 # None
    THEN IF oe1[1].pos.n > e2.pos.n THEN Some(oe1[1]) ELSE Some(e2)
    ELSE Some(e2)

(* parse_or_match, going on from where the failed alternative stopped *)
parse_or_match_noreset(acc, try_parse) ==
    IF IsOk(try_parse)
    THEN TailCall_Return(acc, Partial(try_parse))
    ELSE TailCall_Call([acc EXCEPT !.st = try_parse.pos,
                                   !.rest = Tail(acc.rest),
                                   !.err = deep_err(acc.err, try_parse)])

parse_or_match(acc, try_parse) ==
    IF IsOk(try_parse)
    THEN TailCall_Return(acc, Partial(try_parse))
    ELSE TailCall_Call([acc EXCEPT !.rest = Tail(acc.rest),
                                   !.err = deep_err(acc.err, try_parse)])

(* parse_not_match, answering with the Status the inner expression reached *)
parse_not_match_inner(status, res) ==
    IF IsOk(res) THEN Error_from_status(status, <<"not">>) ELSE Ok(res.pos)

parse_not_match(status, res) ==
    IF IsOk(res) THEN Error_from_status(status, <<"not">>) ELSE Ok(status)

(* expression.rs: parse_negate *)
parse_negate(status, res) ==
    IF IsOk(res) THEN Error_from_status(res.pos, <<"negation error">>) ELSE Ok(status)

big_min_bound(rep_info, counter) == counter >= rep_info.min

touch_max_bound(rep_info, counter) ==
    IF rep_info.max # None THEN counter + 1 = rep_info.max[1] ELSE FALSE

parse_repeat_match(acc, try_parse) ==
    CASE IsErr(try_parse) /\ big_min_bound(acc.e, acc.k) ->
            TailCall_Return(acc, Ok(acc.st))
      [] IsErr(try_parse) /\ ~big_min_bound(acc.e, acc.k) ->
            TailCall_Return(acc, Error_from_status(acc.st, <<"repeat">>))
      [] IsOk(try_parse) /\ ~touch_max_bound(acc.e, acc.k) ->
            TailCall_Call([acc EXCEPT !.st = try_parse.pos, !.k = acc.k + 1])
      [] IsOk(try_parse) /\ touch_max_bound(acc.e, acc.k) ->
            TailCall_Return(acc, Ok(try_parse.pos))

(* rules_get, in the rule set as it was constructed, before any add *)
rules_get_built(rs, rule_name) ==
    IF rule_name \in DOMAIN rules0 THEN Some(rules0[rule_name]) ELSE None

rules_get(rs, rule_name) == IF rule_name \in DOMAIN rs THEN Some(rs[rule_name]) ELSE None

(* missing_rule, positioned at the start of the input *)
missing_rule_at_start(status, rule_name) ==
    Error_from_status(init_pos, <<"Missing rule: ", rule_name>>)

missing_rule(status, rule_name) == Error_from_status(status, <<"Missing rule: ", rule_name>>)

(* tail_call: Call goes round the loop, Return leaves it *)
tail_call(state) ==
    IF state.tc = "Call" THEN Loop(state.acc) ELSE Return(state.acc, state.res)

-----------------------------------------------------------------------------
(* peg: the rule set of a grammar written as text *)

rules_macro(pairs) ==
    [x \in {pairs[i][1] : i \in 1..Len(pairs)} |->
        pairs[CHOOSE i \in 1..Len(pairs) : pairs[i][1] = x][2]]

Quote == Lit(<<"\"">>)

(* rules2parse_peg with the alternatives that close a rule exchanged: eof  *)
(* is tried before _                                                        *)
rules2parse_peg_eof_first ==
    rules_macro(<<
        <<"main", RuleName("grammar")>>,
        <<"grammar", Repeat(RuleName("rule"), 1, None)>>,
        <<"rule", And(<<RuleName("_"), RuleName("symbol"),
                        RuleName("_"), Lit(<<"=">>),
                        RuleName("_"), RuleName("expr"),
                        Or(<<RuleName("eof"), RuleName("_")>>),
                        RuleName("_")>>)>>,
        <<"expr", RuleName("or")>>,
        <<"or", And(<<RuleName("and"),
                      Repeat(And(<<RuleName("_"), Lit(<<"/">>),
                                   RuleName("_"), RuleName("or")>>), 0, None)>>)>>,
        <<"and", And(<<RuleName("rep_or_neg"),
                       Repeat(And(<<Lit(<<" ">>), RuleName("_"), RuleName("and")>>),
                              0, None)>>)>>,
        <<"rep_or_neg", Or(<<And(<<RuleName("atom_or_par"),
                                   Repeat(Or(<<Lit(<<"*">>), Lit(<<"+">>), Lit(<<"?">>)>>),
                                          0, Some(1))>>),
                             And(<<Lit(<<"!">>), RuleName("atom_or_par")>>)>>)>>,
        <<"atom_or_par", Or(<<RuleName("atom"), RuleName("parenth")>>)>>,
        <<"parenth", And(<<Lit(<<"(">>), RuleName("_"), RuleName("expr"),
                           RuleName("_"), Lit(<<")">>)>>)>>,
        <<"atom", Or(<<RuleName("literal"), RuleName("match"),
                       RuleName("dot"), RuleName("symbol")>>)>>,
        <<"literal", And(<<Quote, Repeat(And(<<Not(Quote), Dot>>), 0, None), Quote>>)>>,
        <<"match", And(<<Lit(<<"[">>),
                         Or(<<And(<<Dot, Lit(<<"-">>), Dot>>),
                              Repeat(And(<<Not(Lit(<<"]">>)), Dot>>), 1, None)>>),
                         Lit(<<"]">>)>>)>>,
        <<"dot", Lit(<<".">>)>>,
        <<"symbol", Repeat(Match(<<"_", "'">>,
                                 <<<<"a", "z">>, <<"A", "Z">>, <<"0", "9">>>>), 1, None)>>,
        <<"_", Repeat(Or(<<Lit(<<" ">>), RuleName("eol"), RuleName("comment")>>),
                      0, None)>>,
        <<"eol", Or(<<Lit(<<"\r", "\n">>), Lit(<<"\n">>), Lit(<<"\r">>)>>)>>,
        <<"comment", Or(<<And(<<Lit(<<"/", "/">>),
                                Repeat(And(<<Not(RuleName("eol")), Dot>>), 0, None),
                                RuleName("eol")>>),
                          And(<<Lit(<<"/", "*">>),
                                Repeat(And(<<Not(Lit(<<"*", "/">>)), Dot>>), 0, None),
                                Lit(<<"*", "/">>)>>)>>)>>
    >>)

(* the rule set rules_from_peg parses a grammar with *)
rules2parse_peg ==
    rules_macro(<<
        <<"main", RuleName("grammar")>>,
        <<"grammar", Repeat(RuleName("rule"), 1, None)>>,
        <<"rule", And(<<RuleName("_"), RuleName("symbol"),
                        RuleName("_"), Lit(<<"=">>),
                        RuleName("_"), RuleName("expr"),
                        Or(<<RuleName("_"), RuleName("eof")>>),
                        RuleName("_")>>)>>,
        <<"expr", RuleName("or")>>,
        <<"or", And(<<RuleName("and"),
                      Repeat(And(<<RuleName("_"), Lit(<<"/">>),
                                   RuleName("_"), RuleName("or")>>), 0, None)>>)>>,
        <<"and", And(<<RuleName("rep_or_neg"),
                       Repeat(And(<<Lit(<<" ">>), RuleName("_"), RuleName("and")>>),
                              0, None)>>)>>,
        <<"rep_or_neg", Or(<<And(<<RuleName("atom_or_par"),
                                   Repeat(Or(<<Lit(<<"*">>), Lit(<<"+">>), Lit(<<"?">>)>>),
                                          0, Some(1))>>),
                             And(<<Lit(<<"!">>), RuleName("atom_or_par")>>)>>)>>,
        <<"atom_or_par", Or(<<RuleName("atom"), RuleName("parenth")>>)>>,
        <<"parenth", And(<<Lit(<<"(">>), RuleName("_"), RuleName("expr"),
                           RuleName("_"), Lit(<<")">>)>>)>>,
        <<"atom", Or(<<RuleName("literal"), RuleName("match"),
                       RuleName("dot"), RuleName("symbol")>>)>>,
        <<"literal", And(<<Quote, Repeat(And(<<Not(Quote), Dot>>), 0, None), Quote>>)>>,
        <<"match", And(<<Lit(<<"[">>),
                         Or(<<And(<<Dot, Lit(<<"-">>), Dot>>),
                              Repeat(And(<<Not(Lit(<<"]">>)), Dot>>), 1, None)>>),
                         Lit(<<"]">>)>>)>>,
        <<"dot", Lit(<<".">>)>>,
        <<"symbol", Repeat(Match(<<"_", "'">>,
                                 <<<<"a", "z">>, <<"A", "Z">>, <<"0", "9">>>>), 1, None)>>,
        <<"_", Repeat(Or(<<Lit(<<" ">>), RuleName("eol"), RuleName("comment")>>),
                      0, None)>>,
        <<"eol", Or(<<Lit(<<"\r", "\n">>), Lit(<<"\n">>), Lit(<<"\r">>)>>)>>,
        <<"comment", Or(<<And(<<Lit(<<"/", "/">>),
                                Repeat(And(<<Not(RuleName("eol")), Dot>>), 0, None),
                                RuleName("eol")>>),
                          And(<<Lit(<<"/", "*">>),
                                Repeat(And(<<Not(Lit(<<"*", "/">>)), Dot>>), 0, None),
                                Lit(<<"*", "/">>)>>)>>)>>
    >>)

SymbolFirst == Match(<<"_", "'">>, <<<<"a", "z">>, <<"A", "Z">>, <<"0", "9">>>>)

SymbolNext == Match(<<"_", "'", "\"">>, <<<<"a", "z">>, <<"A", "Z">>, <<"0", "9">>>>)

AndLookahead == Not(And(<<RuleName("symbol"), RuleName("_"), Lit(<<"=">>)>>))

(* the rules of parse_peg, "and" apart *)
parse_peg_rules ==
    <<
        <<"dot", Lit(<<".">>)>>,
        <<"parenth", And(<<Lit(<<"(">>), RuleName("_"), RuleName("expr"),
                           RuleName("_"), Lit(<<")">>)>>)>>,
        <<"atom_or_par", Or(<<RuleName("atom"), RuleName("parenth")>>)>>,
        <<"symbol", And(<<SymbolFirst, Repeat(SymbolNext, 0, None)>>)>>,
        <<"mchars", Repeat(And(<<Not(Lit(<<"]">>)), Not(And(<<Dot, Lit(<<"-">>)>>)), Dot>>),
                           1, None)>>,
        <<"atom", Or(<<RuleName("literal"), RuleName("match"),
                       RuleName("dot"), RuleName("symbol")>>)>>,
        <<"or", And(<<RuleName("and"),
                      Repeat(And(<<RuleName("_"), Lit(<<"/">>),
                                   RuleName("_"), RuleName("or")>>), 0, None)>>)>>,
        <<"rep_or_neg", Or(<<And(<<RuleName("atom_or_par"),
                                   Repeat(Or(<<Lit(<<"*">>), Lit(<<"+">>), Lit(<<"?">>)>>),
                                          0, Some(1))>>),
                             And(<<Lit(<<"!">>), RuleName("atom_or_par")>>)>>)>>,
        <<"_eol", And(<<Repeat(Lit(<<" ">>), 0, None), RuleName("eol")>>)>>,
        <<"_\"", Lit(<<"\"">>)>>,
        <<"rule", And(<<RuleName("_"), RuleName("symbol"), RuleName("_"), Lit(<<"=">>),
                        RuleName("_"), RuleName("expr"), RuleName("_eol"),
                        RuleName("_")>>)>>,
        <<"match", And(<<Lit(<<"[">>),
                         Or(<<And(<<RuleName("mchars"),
                                    Repeat(RuleName("mbetween"), 0, None)>>),
                              Repeat(RuleName("mbetween"), 1, None)>>),
                         Lit(<<"]">>)>>)>>,
        <<"eol", Or(<<Lit(<<"\r", "\n">>), Lit(<<"\n">>), Lit(<<"\r">>)>>)>>,
        <<"_1", Or(<<Lit(<<" ">>), RuleName("eol")>>)>>,
        <<"literal", And(<<RuleName("_\""),
                           Repeat(Or(<<And(<<Lit(<<"\\">>), Dot>>),
                                       And(<<Not(RuleName("_\"")), Dot>>)>>), 0, None),
                           RuleName("_\"")>>)>>,
        <<"mbetween", And(<<Dot, Lit(<<"-">>), Dot>>)>>,
        <<"main", RuleName("grammar")>>,
        <<"expr", RuleName("or")>>,
        <<"grammar", Repeat(RuleName("rule"), 1, None)>>,
        <<"_", Repeat(Or(<<Lit(<<" ">>), RuleName("eol")>>), 0, None)>>
    >>

(* peg::rules::parse_peg, the rule set that describes the grammar texts *)
parse_peg_swallow ==
    rules_macro(parse_peg_rules \o
        <<<<"and", And(<<RuleName("rep_or_neg"),
                         Repeat(And(<<RuleName("_1"), RuleName("_"), RuleName("and")>>),
                                0, None)>>)>>>>)

(* parse_peg with a repetition in "and" whose body can succeed on nothing: *)
(* blanks are optional and the next "and" is not asked for                  *)
parse_peg_idle_repeat ==
    rules_macro(parse_peg_rules \o
        <<<<"and", And(<<RuleName("rep_or_neg"),
                         Repeat(And(<<RuleName("_"), AndLookahead>>), 0, None)>>)>>>>)

parse_peg ==
    rules_macro(parse_peg_rules \o
        <<<<"and", And(<<RuleName("rep_or_neg"),
                         Repeat(And(<<RuleName("_1"), RuleName("_"), AndLookahead,
                                      RuleName("and")>>), 0, None)>>)>>>>)

(* Node::compact: adjacent Val siblings become one Val *)
RECURSIVE merge_vals(_)
merge_vals(nodes) ==
    IF Len(nodes) < 2 THEN nodes
    ELSE IF nodes[1].kind = "Val" /\ nodes[2].kind = "Val"
         THEN merge_vals(<<Node_Val(nodes[1].val \o nodes[2].val)>> \o Tail(Tail(nodes)))
         ELSE <<nodes[1]>> \o merge_vals(Tail(nodes))

RECURSIVE compact(_)
compact(node) ==
    IF node.kind = "Val" THEN node
    ELSE Node_Rule(node.name,
                   merge_vals([i \in 1..Len(node.nodes) |-> compact(node.nodes[i])]))

(* Node::prune: the Rule nodes named in names go, their children take       *)
(* their place                                                              *)
RECURSIVE prune_nodes(_, _)
prune_nodes(nodes, names) ==
    IF nodes = <<>> THEN <<>>
    ELSE LET node == Head(nodes) IN
         (CASE node.kind = "Rule" /\ node.name \in names ->
                   prune_nodes(node.nodes, names)
            [] node.kind = "Rule" /\ node.name \notin names ->
                   <<Node_Rule(node.name, prune_nodes(node.nodes, names))>>
            [] OTHER -> <<node>>)
         \o prune_nodes(Tail(nodes), names)

prune(node, names) ==
    IF node.kind = "Val" THEN node
    ELSE Node_Rule(node.name, prune_nodes(node.nodes, names))

(* enum ExprOrRule in a result::Result<_, String> *)
ExprOrRule_Expr(expr) == [kind |-> "Expr", expr |-> expr, rules |-> <<>>, msg |-> <<>>]

ExprOrRule_Rule(rule) == [kind |-> "Rule", expr |-> NoExpr, rules |-> <<rule>>, msg |-> <<>>]

Err(msg) == [kind |-> "Err", expr |-> NoExpr, rules |-> <<>>, msg |-> msg]

process_rule(nodes) ==
    ExprOrRule_Rule(rules_macro(<<<<"main", Lit(<<"t", "e", "s", "t", "i", "n", "g">>)>>>>))

atom_literal_from_nodes(nodes) ==
    IF Len(nodes) < 2
    THEN Err(<<"Invalid ast for literal. Minimum nodes size 3">>)
    ELSE LET f == nodes[1]
             l == nodes[Len(nodes)]
             inner == SubSeq(nodes, 2, Len(nodes) - 1)
         IN
         CASE f.kind # "Val" \/ l.kind # "Val" ->
                 Err(<<"Expected ast::Node::Val arround literal string">>)
           [] f.kind = "Val" /\ l.kind = "Val" /\ (f.val # <<"\"">> \/ l.val # <<"\"">>) ->
                 Err(<<"Expected quote arround literal string">>)
           [] OTHER ->
                 IF \E i \in 1..Len(inner) : inner[i].kind # "Val"
                 THEN Err(<<"Expected ast::Node::Val">>)
                 ELSE LET RECURSIVE concat(_)
                          concat(ns) == IF ns = <<>> THEN <<>>
                                        ELSE Head(ns).val \o concat(Tail(ns))
                      IN ExprOrRule_Expr(Lit(concat(inner)))

process_atom(nodes) ==
    CASE Len(nodes) # 1 -> Err(<<"an atom can have only one child">>)
      [] Len(nodes) = 1 /\ nodes[1].kind # "Rule" -> Err(<<"incorrect atom info in ast">>)
      [] Len(nodes) = 1 /\ nodes[1].kind = "Rule" /\ nodes[1].name = "literal" ->
             atom_literal_from_nodes(nodes[1].nodes)
      [] OTHER -> Err(<<"not registered atom type ", nodes[1].name>>)

PassthrowRules ==
    {"main", "grammar", "expr", "or", "and", "rep_or_neg", "atom_or_par"}

RECURSIVE process_node(_)
RECURSIVE process_peg_rule(_, _)
RECURSIVE passthrow(_)

process_node(node) ==
    IF node.kind = "Rule" THEN process_peg_rule(node.name, node.nodes)
    ELSE Err(<<"ERROR TESTING AST">>)

process_peg_rule(rname, nodes) ==
    LET r == CASE rname \in PassthrowRules -> passthrow(nodes)
               [] rname = "rule" -> process_rule(nodes)
               [] rname = "atom" -> process_atom(nodes)
               [] OTHER -> Err(<<"unknown peg rule ", rname>>)
    IN IF r.kind = "Err" THEN Err(<<"processing ", rname, " > ">> \o r.msg) ELSE r

passthrow(nodes) ==
    IF Len(nodes) = 1 THEN process_node(nodes[1])
    ELSE Err(<<"passthrow can have only one child node">>)

rules_from_ast(ast) ==
    LET res == process_node(prune(compact(ast), {"_"})) IN
    CASE res.kind = "Err" -> res
      [] res.kind = "Expr" -> ExprOrRule_Rule(rules_macro(<<<<"maina", res.expr>>>>))
      [] res.kind = "Rule" -> res

-----------------------------------------------------------------------------
(* The inputs the model draws from *)

Alphabet == {"a", "b"}

La == Lit(<<"a">>)

Lab == Lit(<<"a", "b">>)

Lbcd == Lit(<<"b", "c", "d">>)

(* the rule "main" of the example in the documentation of SetOfRules::add *)
DocMain == And(<<Repeat(La, 1, Some(5)), RuleName("rule2")>>)

DocTexts == {<<"a", "a", "b", "c", "d">>, <<"a", "a", "b", "c">>}

(* the grammars of the tests parse_literal, parse_and_literal and           *)
(* parse_or_literal of peg/test.rs                                          *)
PegHello ==
    <<"\n", "\n", " ", " ", " ", " ", "m", "a", "i", "n", " ", " ",
      " ", " ", "=", " ", "\"", "h", "e", "l", "l", "o", "\"", "\n",
      "\n", " ", " ", " ", " ">>

PegHelloWorld ==
    <<"\n", "\n", " ", " ", " ", " ", "m", "a", "i", "n", " ", " ",
      " ", " ", "=", " ", "\"", "h", "e", "l", "l", "o", "\"", " ",
      " ", " ", "\"", " ", "\"", " ", " ", " ", "\"", "w", "o", "r",
      "l", "d", "\"", "\n", "\n", " ", " ", " ", " ">>

PegHelloHola ==
    <<"\n", "\n", " ", " ", " ", " ", "m", "a", "i", "n", " ", " ",
      " ", " ", "=", " ", "\"", "h", "e", "l", "l", "o", "\"", " ",
      " ", " ", "/", " ", " ", " ", "\"", "h", "o", "l", "a", "\"",
      "\n", "\n", " ", " ", " ", " ">>

(* a grammar of two rules, and a text that is no grammar *)
PegTwoRules ==
    <<"m", "a", "i", "n", " ", "=", " ", "a", "\n", "a", " ", "=",
      " ", "\"", "x", "\"", "\n">>

PegNoExpr ==
    <<"m", "a", "i", "n", " ", "=", "\n">>

(* a rule with no end of line after it, and a second rule whose literal    *)
(* has no closing quote                                                     *)
PegNoEol ==
    <<"m", "a", "i", "n", " ", "=", " ", "\"", "a", "\"">>

PegLaterBad ==
    <<"m", "a", "i", "n", " ", "=", " ", "c", "\n",
      "c", " ", "=", " ", "\"", "a", "\n">>

PegTexts == {PegHello, PegHelloWorld, PegHelloHola, PegTwoRules, PegNoExpr, PegNoEol}

(* the grammar texts of the tests validate_peg1 .. validate_peg5 of         *)
(* peg/test.rs                                                              *)
ValidatePeg1 ==
    <<"\n", " ", " ", " ", " ", "\n", " ", " ", " ", " ", "m", "a",
      "i", "n", " ", " ", " ", " ", "=", " ", "\"", "a", "a", "a",
      "\"", " ", "\"", "b", "b", "\"", " ", "c", "*", " ", " ", "/",
      " ", "(", "(", "d", " ", "f", ")", "+", " ", "/", " ", "e",
      "s", ")", "\n", " ", " ", " ", " ", "c", " ", " ", " ", " ",
      " ", " ", " ", "=", " ", "c", "'", "\n", " ", " ", " ", " ",
      "c", "'", " ", " ", " ", " ", " ", " ", "=", " ", "c", "'",
      "'", "\n", " ", " ", " ", " ", "c", "'", "'", " ", " ", " ",
      " ", " ", "=", " ", "\"", "c", "\"", "\n", " ", " ", " ", " ",
      "d", " ", " ", " ", " ", " ", " ", " ", "=", " ", "\"", "d",
      "\"", "\n", " ", " ", " ", " ", "f", " ", " ", " ", " ", " ",
      " ", " ", "=", " ", "\"", "f", "\"", "\n", " ", " ", " ", " ",
      "e", "s", " ", " ", " ", " ", " ", " ", " ", "=", " ", "\"",
      "e", "\"", "+", "\n", "\n", " ", " ", " ", " ">>

ValidatePeg2 ==
    <<"\n", " ", " ", " ", " ", "\n", " ", " ", " ", " ", "m", "a",
      "i", "n", " ", " ", " ", " ", "=", " ", " ", " ", "\"", "a",
      "a", "a", "\"", " ", "\n", " ", " ", " ", " ", " ", " ", " ",
      " ", " ", " ", " ", " ", "/", " ", " ", " ", "\"", "b", "b",
      "\"", " ", "c", "*", " ", " ", "\n", " ", " ", " ", " ", " ",
      " ", " ", " ", " ", " ", " ", " ", "/", " ", "(", "(", "d",
      " ", "f", ")", "+", " ", "/", " ", "e", "s", ")", "\n", "\n",
      " ", " ", " ", " ", "c", " ", " ", " ", " ", " ", " ", " ",
      "=", " ", "c", "'", "\n", " ", " ", " ", " ", "c", "'", " ",
      " ", " ", " ", " ", " ", "=", " ", "c", "'", "'", "\n", " ",
      " ", " ", " ", "c", "'", "'", " ", " ", " ", " ", " ", "=",
      " ", "\"", "c", "\"", "\n", " ", " ", " ", " ", "d", " ", " ",
      " ", " ", " ", " ", " ", "=", " ", "\"", "d", "\"", "\n", " ",
      " ", " ", " ", "f", " ", " ", " ", " ", " ", " ", " ", "=",
      " ", "\"", "f", "\"", "\n", " ", " ", " ", " ", "e", "s", " ",
      " ", " ", " ", " ", " ", " ", "=", " ", "\"", "e", "\"", "+",
      "\n", "\n", " ", " ", " ", " ">>

InvalidPeg1 ==
    <<"\n", " ", " ", " ", " ", "\n", " ", " ", " ", " ", "m", "a",
      "i", "n", " ", " ", " ", " ", "=", " ", "\"", "a", "a", "a",
      "\"", " ", "\"", "b", "b", "\"", " ", "c", " ", "*", " ", " ",
      "/", " ", "(", "(", "d", " ", "f", ")", "+", " ", "/", " ",
      "e", "s", ")", "\n", " ", " ", " ", " ", "c", " ", " ", " ",
      " ", " ", " ", " ", "=", " ", "c", "'", "\n", " ", " ", " ",
      " ", "c", "'", " ", " ", " ", " ", " ", " ", "=", " ", "c",
      "'", "'", "\n", " ", " ", " ", " ", "c", "'", "'", " ", " ",
      " ", " ", " ", "=", " ", "\"", "c", "\"", "\n", " ", " ", " ",
      " ", "d", " ", " ", " ", " ", " ", " ", " ", "=", " ", "\"",
      "d", "\"", "\n", " ", " ", " ", " ", "f", " ", " ", " ", " ",
      " ", " ", " ", "=", " ", "\"", "f", "\"", "\n", " ", " ", " ",
      " ", "e", "s", " ", " ", " ", " ", " ", " ", " ", "=", " ",
      "\"", "e", "\"", "+", "\n", "\n", " ", " ", " ", " ">>

InvalidPeg2 ==
    <<"\n", " ", " ", " ", " ", "\n", " ", " ", " ", " ", "m", "a",
      "i", "n", " ", " ", " ", " ", "=", " ", " ", " ", "\"", "a",
      "a", "a", "\"", " ", "\n", " ", " ", " ", " ", " ", " ", " ",
      " ", " ", " ", " ", " ", "/", " ", " ", " ", "\"", "b", "b",
      "\"", " ", "c", "*", " ", " ", "\n", " ", " ", " ", " ", " ",
      " ", " ", " ", " ", " ", " ", " ", "/", " ", "(", "(", "d",
      " ", "f", ")", "+", " ", "/", " ", "e", "s", "\n", " ", " ",
      " ", " ", " ", " ", " ", " ", " ", " ", " ", " ", "\n", " ",
      " ", " ", " ", "c", " ", " ", " ", " ", " ", " ", " ", "=",
      " ", "c", "'", "\n", " ", " ", " ", " ", "c", "'", " ", " ",
      " ", " ", " ", " ", "=", " ", "c", "'", "'", "\n", " ", " ",
      " ", " ", "c", "'", "'", " ", " ", " ", " ", " ", "=", " ",
      "\"", "c", "\"", "\n", " ", " ", " ", " ", "d", " ", " ", " ",
      " ", " ", " ", " ", "=", " ", "\"", "d", "\"", "\n", " ", " ",
      " ", " ", "f", " ", " ", " ", " ", " ", " ", " ", "=", " ",
      "\"", "f", "\"", "\n", " ", " ", " ", " ", "e", "s", " ", " ",
      " ", " ", " ", " ", " ", "=", " ", "\"", "e", "\"", "+", "\n",
      "\n", " ", " ", " ", " ">>

ValidatePeg3 ==
    <<"\n", " ", " ", " ", " ", "\n", " ", " ", " ", " ", "m", "a",
      "i", "n", " ", " ", " ", " ", "=", " ", "\"", "a", "a", "a",
      " ", "\"", "b", "b", "\"", " ", "c", "*", " ", " ", "/", " ",
      "(", "(", "d", " ", "f", ")", "+", " ", "/", " ", "e", "s",
      ")", "\n", " ", " ", " ", " ", "c", " ", " ", " ", " ", " ",
      " ", " ", "=", " ", "c", "'", "\n", " ", " ", " ", " ", "c",
      "'", " ", " ", " ", " ", " ", " ", "=", " ", "c", "'", "'",
      "\n", " ", " ", " ", " ", "c", "'", "'", " ", " ", " ", " ",
      " ", "=", " ", "\"", "c", "\"", "\n", " ", " ", " ", " ", "d",
      " ", " ", " ", " ", " ", " ", " ", "=", " ", "\"", "d", "\"",
      "\n", " ", " ", " ", " ", "f", " ", " ", " ", " ", " ", " ",
      " ", "=", " ", "\"", "f", "\"", "\n", " ", " ", " ", " ", "e",
      "s", " ", " ", " ", " ", " ", " ", " ", "=", " ", "\"", "e",
      "\"", "+", "\n", "\n", " ", " ", " ", " ">>

ValidatePeg4 ==
    <<"\n", " ", " ", " ", " ", "\n", " ", " ", " ", " ", "m", "a",
      " ", "i", "n", " ", " ", " ", " ", "=", " ", "\"", "a", "a",
      "a", "\"", " ", "\"", "b", "b", "\"", " ", "c", "*", " ", " ",
      "/", " ", "(", "(", "d", " ", "f", ")", "+", " ", "/", " ",
      "e", "s", ")", "\n", " ", " ", " ", " ", "c", " ", " ", " ",
      " ", " ", " ", " ", "=", " ", "c", "'", "\n", " ", " ", " ",
      " ", "c", "'", " ", " ", " ", " ", " ", " ", "=", " ", "c",
      "'", "'", "\n", " ", " ", " ", " ", "c", "'", "'", " ", " ",
      " ", " ", " ", "=", " ", "\"", "c", "\"", "\n", " ", " ", " ",
      " ", "d", " ", " ", " ", " ", " ", " ", " ", "=", " ", "\"",
      "d", "\"", "\n", " ", " ", " ", " ", "f", " ", " ", " ", " ",
      " ", " ", " ", "=", " ", "\"", "f", "\"", "\n", " ", " ", " ",
      " ", "e", "s", " ", " ", " ", " ", " ", " ", " ", "=", " ",
      "\"", "e", "\"", "+", "\n", "\n", " ", " ", " ", " ">>

ValidatePeg5 ==
    <<"\n", " ", " ", " ", " ", "\n", " ", " ", " ", " ", "m", "a",
      "i", "n", " ", " ", " ", " ", "=", " ", "\"", "a", "a", "a",
      "\"", " ", "\"", "b", "b", "\"", " ", "c", "*", " ", " ", "/",
      " ", "(", "(", "d", " ", "f", ")", "+", "*", " ", "/", " ",
      "e", "s", ")", "\n", " ", " ", " ", " ", "c", " ", " ", " ",
      " ", " ", " ", " ", "=", " ", "c", "'", "\n", " ", " ", " ",
      " ", "c", "'", " ", " ", " ", " ", " ", " ", "=", " ", "c",
      "'", "'", "\n", " ", " ", " ", " ", "c", "'", "'", " ", " ",
      " ", " ", " ", "=", " ", "\"", "c", "\"", "\n", " ", " ", " ",
      " ", "d", " ", " ", " ", " ", " ", " ", " ", "=", " ", "\"",
      "d", "\"", "\n", " ", " ", " ", " ", "f", " ", " ", " ", " ",
      " ", " ", " ", "=", " ", "\"", "f", "\"", "\n", " ", " ", " ",
      " ", "e", "s", " ", " ", " ", " ", " ", " ", " ", "=", " ",
      "\"", "e", "\"", "+", "\n", "\n", " ", " ", " ", " ">>

WellFormedPegs == {ValidatePeg1, ValidatePeg2}

MalformedPegs == {InvalidPeg1, InvalidPeg2, ValidatePeg3, ValidatePeg4, ValidatePeg5}

GrammarTexts == WellFormedPegs \cup MalformedPegs \cup {PegLaterBad}

Hello == <<"h", "e", "l", "l", "o">>

HelloWorld == <<"h", "e", "l", "l", "o", " ", "w", "o", "r", "l", "d">>

Hola == <<"h", "o", "l", "a">>

Bye == <<"b", "y", "e">>

PegInputs == {Hello, HelloWorld, Hola, Bye}

Texts == UNION {[1..n -> Alphabet] : n \in 0..MaxLen} \cup DocTexts \cup PegInputs

Leaves == {La, Lab, Dot, RuleName("rule2")}

Inner == Leaves \cup {Not(La), Repeat(La, 0, None)}

KidSeqs == UNION {[1..n -> Leaves] : n \in 0..MaxKids}

Mins == 0..MaxRep

Maxs == {None} \cup {Some(m) : m \in 0..MaxRep}

MainExprs ==
    {And(kids) : kids \in KidSeqs} \cup {Or(kids) : kids \in KidSeqs}
    \cup {Not(e) : e \in Inner}
    \cup {Repeat(e, min, max) : e \in Inner, min \in Mins, max \in Maxs}
    \cup {DocMain}

Rule2Exprs == {Lbcd, La}

AddArgs == ({"main"} \X MainExprs) \cup ({"rule2"} \X Rule2Exprs)

InitRules == {EmptyRules, add(EmptyRules, "main", DocMain)}

Names == {"main", "rule2"}

-----------------------------------------------------------------------------
(* The rule set is built, then parsed against *)

Init ==
    /\ rules = EmptyRules
    /\ rules0 = rules
    /\ added = [x \in Names |-> None]
    /\ text = <<>>
    /\ peg = <<>>
    /\ pegparse = NoRet
    /\ phase = "new"
    /\ stack = <<>>
    /\ ret = NoRet
    /\ last = NoEval
    /\ result = NoRet

(* SetOfRules::new *)
New(mrules) ==
    /\ phase = "new"
    /\ rules' = mrules
    /\ rules0' = mrules
    /\ phase' = "build"
    /\ UNCHANGED <<added, text, peg, pegparse, stack, ret, last, result>>

(* rules_from_peg: the grammar text is parsed with rules2parse_peg *)
RulesFromPeg(p) ==
    /\ phase = "new"
    /\ rules' = rules2parse_peg
    /\ rules0' = rules2parse_peg
    /\ text' = p
    /\ peg' = p
    /\ phase' = "peg"
    /\ stack' = <<CallFrame(RuleName("main"), init_pos, None)>>
    /\ UNCHANGED <<added, pegparse, ret, last, result>>

(* parse(peg, &peg::rules::parse_peg()): a grammar text is parsed with the   *)
(* rule set that describes grammar texts                                    *)
ValidatePeg(p) ==
    /\ \/ phase = "new"
       \/ /\ phase \in {"build", "failed"}
          /\ p = peg
          /\ added = [x \in Names |-> None]
    /\ rules' = parse_peg
    /\ rules0' = parse_peg
    /\ text' = p
    /\ phase' = "validate"
    /\ stack' = <<CallFrame(RuleName("main"), init_pos, None)>>
    /\ ret' = NoRet
    /\ last' = NoEval
    /\ UNCHANGED <<added, peg, pegparse, result>>

(* SetOfRules::add *)
Add(name, expr) ==
    /\ phase = "build"
    /\ rules' = add(rules, name, expr)
    /\ added' = [added EXCEPT ![name] = Some(expr)]
    /\ UNCHANGED <<rules0, text, peg, pegparse, phase, stack, ret, last, result>>

(* parse(text, &rules): the start rule from position 0 *)
Parse(t) ==
    /\ phase = "build"
    /\ text' = t
    /\ phase' = "run"
    /\ stack' = <<CallFrame(RuleName("main"), init_pos, None)>>
    /\ UNCHANGED <<rules, rules0, added, peg, pegparse, ret, last, result>>

(* parse of lib.rs: Ok whatever the start rule left unconsumed, the error  *)
(* of the start rule otherwise                                              *)
parse_whole_input(parsed) ==
    IF IsOk(parsed) /\ parsed.pos.n # Len(text)
    THEN Error_from_status(parsed.pos, <<"not consumed">>)
    ELSE IF IsOk(parsed) THEN Ok(init_pos) ELSE parsed

parse(parsed) == IF IsOk(parsed) THEN Ok(init_pos) ELSE parsed

(* what parse makes of the result of the start rule *)
parse_result(parsed) ==
    IF IsOk(parse(parsed))
    THEN [parse(parsed) EXCEPT !.nodes = <<compact(parsed.nodes[1])>>]
    ELSE parse(parsed)

Finish ==
    /\ phase \in {"run", "validate"} /\ stack = <<>> /\ Pending
    /\ result' = parse_result(ret)
    /\ phase' = "done"
    /\ UNCHANGED <<rules, rules0, added, text, peg, pegparse, stack, ret, last>>

(* rules_from_peg: the parse of the grammar text failed, or its tree is     *)
(* handed to rules_from_ast                                                 *)
PegFinish ==
    /\ phase = "peg" /\ stack = <<>> /\ Pending
    /\ LET ast == parse_result(ret)
           compiled == rules_from_ast(ast.nodes[1])
       IN
       CASE IsErr(ast) ->
               /\ result' = ast
               /\ phase' = "failed"
               /\ UNCHANGED <<rules, rules0, text, stack, ret, last>>
         [] IsOk(ast) /\ compiled.kind = "Err" ->
               /\ result' = Error_from_status(init_pos, compiled.msg)
               /\ phase' = "failed"
               /\ UNCHANGED <<rules, rules0, text, stack, ret, last>>
         [] OTHER ->
               /\ rules' = compiled.rules[1]
               /\ rules0' = compiled.rules[1]
               /\ text' = <<>>
               /\ phase' = "build"
               /\ stack' = <<>>
               /\ ret' = NoRet
               /\ last' = NoEval
               /\ UNCHANGED result
    /\ pegparse' = Partial(ret)
    /\ UNCHANGED <<added, peg>>

-----------------------------------------------------------------------------
(* parse_partial dispatches on the variant of the expression *)

Fixed == UNCHANGED <<rules, rules0, added, text, peg, pegparse, phase, result>>

Dispatch(tags) == Running("call") /\ Top.e.tag \in tags

ParseSimple ==
    /\ Dispatch({"Literal", "Dot", "Match"})
    /\ Return(Top, atom_parse(text, Top.st, Top.e))
    /\ Fixed

ParseAnd ==
    /\ Dispatch({"And"})
    /\ Loop(Enter(Top, "and", Top.e.kids))
    /\ Fixed

ParseOr ==
    /\ Dispatch({"Or"})
    /\ Loop(Enter(Top, "or", Top.e.kids))
    /\ Fixed

ParseNot ==
    /\ Dispatch({"Not"})
    /\ CallPartial(Enter(Top, "not", <<>>), Top.e.kids[1], Top.st)
    /\ Fixed

ParseRepeat ==
    /\ Dispatch({"Repeat"})
    /\ Loop(Enter(Top, "rep", <<>>))
    /\ Fixed

ParseRuleName ==
    /\ Dispatch({"RuleName"})
    /\ LET expression == rules_get(rules, Top.e.name) IN
       IF expression = None
       THEN Return(Top, missing_rule(Top.st, Top.e.name))
       ELSE CallPartial(Enter(Top, "rule", <<>>), expression[1], Top.st)
    /\ Fixed

RuleReturn ==
    /\ Running("rule") /\ Pending
    /\ Return(Answered(Top, ret), ret)
    /\ Fixed

-----------------------------------------------------------------------------
(* parse_and *)

AndIter ==
    /\ Running("and") /\ ~Pending
    /\ IF Len(Top.rest) = 0
       THEN Return(Top, Ok(Top.st))
       ELSE CallExpr(Top, Top.rest[1], Top.st)
    /\ Fixed

AndMatch ==
    /\ Running("and") /\ Pending
    /\ tail_call(parse_and_match(Answered(Top, ret), ret))
    /\ Fixed

-----------------------------------------------------------------------------
(* parse_or *)

OrIter ==
    /\ Running("or") /\ ~Pending /\ ~(Len(Top.rest) = 0 /\ Top.err = None)
    /\ IF Len(Top.rest) = 0
       THEN Return(Top, Top.err[1])
       ELSE CallExpr(Top, Top.rest[1], Top.st)
    /\ Fixed

(* acc.2.expect(..) on None: the thread panics *)
OrPanic ==
    /\ Running("or") /\ ~Pending /\ Len(Top.rest) = 0 /\ Top.err = None
    /\ phase' = "panic"
    /\ UNCHANGED <<rules, rules0, added, text, peg, pegparse, stack, ret, last, result>>

OrMatch ==
    /\ Running("or") /\ Pending
    /\ tail_call(parse_or_match(Answered(Top, ret), ret))
    /\ Fixed

-----------------------------------------------------------------------------
(* parse_not *)

NotMatch ==
    /\ Running("not") /\ Pending
    /\ Return(Answered(Top, ret), parse_not_match(Top.st, ret))
    /\ Fixed

-----------------------------------------------------------------------------
(* parse_repeat *)

RepeatIter ==
    /\ Running("rep") /\ ~Pending
    /\ CallPartial(Top, Top.e.kids[1], Top.st)
    /\ Fixed

RepeatMatch ==
    /\ Running("rep") /\ Pending
    /\ LET state == parse_repeat_match(Answered(Top, ret), ret) IN
       /\ state.tc = "Call" =>
              state.acc.k <= (IF phase = "run" THEN MaxCount ELSE MaxPegCount)
       /\ tail_call(state)
    /\ Fixed

-----------------------------------------------------------------------------

Next ==
    \/ \E m \in InitRules : New(m)
    \/ \E p \in PegTexts : RulesFromPeg(p)
    \/ PegFinish
    \/ \E p \in PegTexts \cup GrammarTexts : ValidatePeg(p)
    \/ \E a \in AddArgs : Add(a[1], a[2])
    \/ \E t \in Texts : Parse(t)
    \/ ParseSimple \/ ParseAnd \/ ParseOr \/ ParseNot \/ ParseRepeat
    \/ ParseRuleName \/ RuleReturn
    \/ AndIter \/ AndMatch
    \/ OrIter \/ OrPanic \/ OrMatch
    \/ NotMatch
    \/ RepeatIter \/ RepeatMatch
    \/ Finish

Spec == Init /\ [][Next]_vars

-----------------------------------------------------------------------------
(* atom.rs: the atoms of the first engine.  A text is a sequence of         *)
(* characters; String::len counts the bytes of its UTF-8 encoding.          *)

Eacute == "é"

utf8_len(ch) == IF ch = Eacute THEN 2 ELSE 1

RECURSIVE str_len(_)
str_len(str) == IF str = <<>> THEN 0 ELSE utf8_len(Head(str)) + str_len(Tail(str))

(* chars().skip(n).take(len).collect() *)
skip_take(str, n, len) ==
    IF n >= Len(str) THEN <<>>
    ELSE SubSeq(str, n + 1, IF n + len <= Len(str) THEN n + len ELSE Len(str))

(* Err(String): the error of an atom has a description only *)
Err_String(descr) ==
    [kind |-> "err", pos |-> init_pos, descr |-> descr, started |-> None, nodes |-> <<>>]

parse_literal(text2parse, str, pars_pos) ==
    LET self_len == str_len(str)
        in_text == skip_take(text2parse, pars_pos.n, self_len)
    IN IF str = in_text
       THEN Ok(Position(pars_pos.n + self_len, pars_pos.row, pars_pos.col + self_len))
       ELSE Err_String(<<"error parsing">>)

parse_dot(text2parse, pars_pos) ==
    IF pars_pos.n < str_len(text2parse)
    THEN Ok(Position(pars_pos.n + 1, pars_pos.row, pars_pos.col + 1))
    ELSE Err_String(<<"expected any char on end of file">>)

(* impl Parse for Atom *)
Atom_parse(atom, text2parse, pars_pos) ==
    CASE atom.tag = "Literal" -> parse_literal(text2parse, atom.lit, pars_pos)
      [] atom.tag = "Dot" -> parse_dot(text2parse, pars_pos)
      [] OTHER -> Err_String(<<"pending implementation">>)

AtomChars == {"a", "\n", Eacute}

AtomTexts == UNION {[1..n -> AtomChars] : n \in 0..MaxAtomLen}

AtomLiterals == UNION {[1..n -> AtomChars] : n \in 1..MaxLitLen}

(* a text is chosen; ret is the position a sequence of atoms has reached *)
AtomInit ==
    /\ rules = EmptyRules
    /\ rules0 = EmptyRules
    /\ added = [x \in Names |-> None]
    /\ text \in AtomTexts
    /\ peg = <<>>
    /\ pegparse = NoRet
    /\ phase = "atom"
    /\ stack = <<>>
    /\ ret = Ok(init_pos)
    /\ last = NoEval
    /\ result = NoRet

(* the atom is parsed at the position reached; a success moves on from    *)
(* the position it returns                                                  *)
AtomParse(atom) ==
    LET res == Atom_parse(atom, text, ret.pos) IN
    /\ last' = [e |-> atom, st |-> ret.pos, res |-> res, log |-> <<>>]
    /\ ret' = IF IsOk(res) THEN res ELSE ret
    /\ UNCHANGED <<rules, rules0, added, text, peg, pegparse, phase, stack, result>>

AtomLiteral(str) ==
    /\ phase = "atom"
    /\ AtomParse(Lit(str))

AtomDot ==
    /\ phase = "atom"
    /\ AtomParse(Dot)

AtomPending ==
    /\ phase = "atom"
    /\ AtomParse(Match(<<"a">>, <<>>))

(* lib.rs: error *)
error(pos, descr) ==
    [kind |-> "err", pos |-> pos, descr |-> descr, started |-> None, nodes |-> <<>>]

(* expression.rs parse_repeat: the closures max_reached and last_ok_or *)
max_reached(omax, i) == IF omax = None THEN FALSE ELSE i + 1 >= omax[1]

last_ok_or(lok, status) == IF lok = None THEN status ELSE lok[1]

(* expression.rs parse_repeat: the match of iteration i, after last_result   *)
(* has been folded into opt_lastokst; NoRet when the loop goes on            *)
parse_repeat(status, min, omax, i, last_result, opt_lastokst) ==
    LET enough == i >= min
        reached == max_reached(omax, i)
    IN CASE ~enough /\ IsErr(last_result) ->
                error(status, <<"not enougth repetitions.">> \o last_result.descr)
         [] ~enough /\ IsOk(last_result) -> NoRet
         [] enough /\ reached /\ opt_lastokst # None -> Ok(opt_lastokst[1])
         [] enough /\ reached /\ opt_lastokst = None ->
                error(status, <<"Inconsistency repeat.">>)
         [] enough /\ ~reached /\ IsOk(last_result) -> NoRet
         [] enough /\ ~reached /\ IsErr(last_result) /\ opt_lastokst # None ->
                Ok(opt_lastokst[1])
         [] OTHER -> Ok(status)

AtomNext == (\E str \in AtomLiterals : AtomLiteral(str)) \/ AtomDot \/ AtomPending

AtomSpec == AtomInit /\ [][AtomNext]_vars

(* The expressions and errors of expression.rs and lib.rs, over the atoms    *)
(* of atom.rs.                                                               *)
ExprAtoms == {Dot, Lit(<<"a">>), Lit(<<Eacute>>)}

ExprMins == 0..MaxRep

ExprMaxs == {None} \cup {Some(m) : m \in 0..MaxRep}

(* a text is chosen; ret is the position a sequence of expressions reached *)
ExprInit ==
    /\ rules = EmptyRules
    /\ rules0 = EmptyRules
    /\ added = [x \in Names |-> None]
    /\ text \in AtomTexts
    /\ peg = <<>>
    /\ pegparse = NoRet
    /\ phase = "expr"
    /\ stack = <<>>
    /\ ret = Ok(init_pos)
    /\ last = NoEval
    /\ result = NoRet

(* Expression::Repeat over Simple(atom) is parsed at the position reached:  *)
(* parse_repeat is entered with opt_lastokst = None and i = 0               *)
ExprRepeat(atom, min, omax) ==
    /\ phase = "expr"
    /\ phase' = "repeat"
    /\ stack' = <<Frame("Repeat", Repeat(atom, min, omax), ret.pos, None, None, 0, None)>>
    /\ UNCHANGED <<rules, rules0, added, text, peg, pegparse, ret, last, result>>

(* one turn of the for loop of parse_repeat; rest holds opt_lastokst, k is i *)
ExprRepeatIter ==
    /\ phase = "repeat"
    /\ Top.k <= MaxAtomCount
    /\ LET f == Top
           st == last_ok_or(f.rest, f.st0)
           last_result == Atom_parse(f.e.kids[1], text, st)
           opt_lastokst == IF IsOk(last_result) THEN Some(last_result.pos) ELSE f.rest
           g == Answered(Logged(f, f.e.kids[1], st), last_result)
           res == parse_repeat(f.st0, f.e.min, f.e.max, f.k, last_result, opt_lastokst)
       IN IF res = NoRet
          THEN /\ stack' = <<[g EXCEPT !.rest = opt_lastokst, !.k = @ + 1]>>
               /\ UNCHANGED <<phase, ret, last>>
          ELSE /\ stack' = <<>>
               /\ phase' = "expr"
               /\ last' = [e |-> f.e, st |-> f.st0, res |-> res, log |-> g.log]
               /\ ret' = IF IsOk(res) THEN res ELSE ret
    /\ UNCHANGED <<rules, rules0, added, text, peg, pegparse, result>>

(* the Ord of Possition, by which deep_error compares: by n *)
Possition_cmp(p1, p2) ==
    IF p1.n = p2.n THEN "Equal" ELSE IF p1.n > p2.n THEN "Greater" ELSE "Less"

(* deep_error, keeping on Equal the second error alone *)
deep_error_second(err1, err2) ==
    IF err1 = None
    THEN err2
    ELSE LET e1 == err1[1]
             ord == Possition_cmp(e1.pos, err2.pos)
         IN CASE ord = "Equal" -> err2
              [] ord = "Greater" -> e1
              [] OTHER -> err2

(* lib.rs: deep_error *)
deep_error(err1, err2) ==
    IF err1 = None
    THEN err2
    ELSE LET e1 == err1[1]
             ord == Possition_cmp(e1.pos, err2.pos)
         IN CASE ord = "Equal" -> [e1 EXCEPT !.descr = e1.descr \o <<" ">> \o err2.descr]
              [] ord = "Greater" -> e1
              [] OTHER -> err2

(* the errors deep_error is given: positions within a text of one line *)
Errors == {error(Position(n, 0, n), d) : n \in 0..MaxLen, d \in {<<"e1">>, <<"e2">>}}

(* deep_error(err1, err2) is computed; the log keeps the two errors given,  *)
(* NoRet standing for None                                                  *)
DeepError(err1, err2) ==
    /\ phase = "expr"
    /\ last' = [e |-> NoExpr, st |-> ret.pos, res |-> deep_error(err1, err2),
                log |-> <<[e |-> NoExpr, st |-> ret.pos,
                           res |-> IF err1 = None THEN NoRet ELSE err1[1]],
                          [e |-> NoExpr, st |-> ret.pos, res |-> err2]>>]
    /\ UNCHANGED <<rules, rules0, added, text, peg, pegparse, phase, stack, ret, result>>

ExprNext ==
    \/ \E atom \in ExprAtoms, min \in ExprMins, omax \in ExprMaxs :
           ExprRepeat(atom, min, omax)
    \/ ExprRepeatIter
    \/ \E err1 \in {None} \cup {Some(e) : e \in Errors}, err2 \in Errors :
           DeepError(err1, err2)

ExprSpec == ExprInit /\ [][ExprNext]_vars

(* parse(text, &parse_peg()) followed to its end: the grammar texts of the  *)
(* tests and every short text over the characters the grammar of grammars   *)
(* tells apart                                                              *)
TermChars == {"a", " ", "=", "\n", "(", "\""}

TermTexts ==
    GrammarTexts \cup PegTexts \cup UNION {[1..n -> TermChars] : n \in 0..MaxTermLen}

TermInit ==
    /\ rules = parse_peg
    /\ rules0 = parse_peg
    /\ added = [x \in Names |-> None]
    /\ text \in TermTexts
    /\ peg = <<>>
    /\ pegparse = NoRet
    /\ phase = "validate"
    /\ stack = <<CallFrame(RuleName("main"), init_pos, None)>>
    /\ ret = NoRet
    /\ last = NoEval
    /\ result = NoRet

(* the steps of the engine; parse_peg has no Or without alternatives *)
TermStep ==
    \/ ParseSimple \/ ParseAnd \/ ParseOr \/ ParseNot \/ ParseRepeat
    \/ ParseRuleName \/ RuleReturn
    \/ AndIter \/ AndMatch
    \/ OrIter \/ OrMatch
    \/ NotMatch
    \/ RepeatIter \/ RepeatMatch

TermNext == TermStep \/ Finish

(* parse runs on one thread, which takes the next step of the engine as    *)
(* long as there is one                                                    *)
TermSpec == TermInit /\ [][TermNext]_vars /\ WF_vars(TermStep)

-----------------------------------------------------------------------------
(* Properties.  last is the evaluation that returned most recently: its     *)
(* expression e, the Status st it started from, its result res, and in log  *)
(* the calls it made, in order, each with its expression, the Status it was *)
(* given and its result.                                                    *)

Returned(tag) == last.e.tag = tag

Calls == 1..Len(last.log)

MaxOf(S) == CHOOSE m \in S : \A x \in S : x <= m

(* C1: parse_or evaluates the alternatives left to right, each from the     *)
(* Status the Or started from, and returns the Status of the first one that *)
(* succeeds; no alternative after it is evaluated.                          *)
C1_OrFirstSuccess ==
    (Returned("Or") /\ IsOk(last.res)) =>
        LET n == Len(last.log) IN
        /\ 1 <= n /\ n <= Len(last.e.kids)
        /\ \A j \in 1..n : last.log[j].e = last.e.kids[j] /\ last.log[j].st = last.st
        /\ \A j \in 1..(n - 1) : IsErr(last.log[j].res)
        /\ IsOk(last.log[n].res)
        /\ Partial(last.res) = Partial(last.log[n].res)

(* an Or whose first alternative failed after consuming input and whose     *)
(* second alternative succeeded                                             *)
C1_Witness ==
    /\ Returned("Or") /\ IsOk(last.res) /\ Len(last.log) = 2
    /\ last.log[1].res.pos.n > last.st.n
    /\ last.res.pos.n > last.st.n

(* C2: when every alternative of a non-empty Or fails, the error of parse_or *)
(* has pos.n equal to the greatest pos.n of the alternatives' errors.       *)
C2_OrDeepestError ==
    (Returned("Or") /\ IsErr(last.res) /\ Len(last.e.kids) > 0) =>
        /\ Len(last.log) = Len(last.e.kids)
        /\ \A j \in Calls : last.log[j].e = last.e.kids[j] /\ IsErr(last.log[j].res)
        /\ last.res.pos.n = MaxOf({last.log[j].res.pos.n : j \in Calls})

(* an Or that failed, the alternative listed first having failed deepest *)
C2_Witness ==
    /\ Returned("Or") /\ IsErr(last.res) /\ Len(last.log) = 2
    /\ last.log[1].res.pos.n > last.log[2].res.pos.n

(* C3: whenever parse_repeat returns Ok, the number k of iterations that    *)
(* succeeded satisfies min <= k, and k <= max when max is present.          *)
C3_RepeatCountInRange ==
    (Returned("Repeat") /\ IsOk(last.res)) =>
        LET k == Cardinality({j \in Calls : IsOk(last.log[j].res)}) IN
        /\ last.e.min <= k
        /\ last.e.max # None => k <= last.e.max[1]

(* C4: an iteration of parse_repeat that succeeds without advancing the     *)
(* position ends the loop: no Repeat goes on after such an iteration.       *)
C4_NoAdvanceEndsLoop ==
    \A i \in 1..Len(stack) :
        stack[i].tag = "rep" =>
            \A j \in 1..Len(stack[i].log) :
                ~(IsOk(stack[i].log[j].res)
                  /\ stack[i].log[j].res.pos.n = stack[i].log[j].st.n)

(* C5: Not(e) at S fails iff e succeeds at S, succeeds iff e fails at S,    *)
(* and on success returns S; so does parse_negate of expression.rs.         *)
C5_NotInverts ==
    Returned("Not") =>
        /\ Len(last.log) = 1
        /\ last.log[1].e = last.e.kids[1] /\ last.log[1].st = last.st
        /\ IsErr(last.res) <=> IsOk(last.log[1].res)
        /\ IsOk(last.res) <=> IsErr(last.log[1].res)
        /\ IsOk(last.res) => last.res.pos = last.st
        /\ LET old == parse_negate(last.st, last.log[1].res) IN
           /\ IsErr(old) <=> IsOk(last.log[1].res)
           /\ IsOk(old) <=> IsErr(last.log[1].res)
           /\ IsOk(old) => old.pos = last.st

(* a Not that succeeded, its inner expression having failed further on *)
C5_Witness ==
    /\ Returned("Not") /\ IsOk(last.res)
    /\ last.log[1].res.pos.n > last.st.n

(* C6: parse_and evaluates its children left to right, each from the Status *)
(* the previous one returned; it succeeds iff every child succeeds, returns *)
(* the error of the first failing child as it is and evaluates no child     *)
(* after it; with no children it returns the Status it was given.           *)
C6_AndThreads ==
    Returned("And") =>
        LET n == Len(last.log)
            end == IF n = 0 THEN last.st ELSE last.log[n].res.pos
        IN
        /\ n <= Len(last.e.kids)
        /\ \A j \in 1..n :
              /\ last.log[j].e = last.e.kids[j]
              /\ last.log[j].st = IF j = 1 THEN last.st ELSE last.log[j - 1].res.pos
        /\ \A j \in 1..(n - 1) : IsOk(last.log[j].res)
        /\ IsOk(last.res) <=> (n = Len(last.e.kids) /\ \A j \in 1..n : IsOk(last.log[j].res))
        /\ IsOk(last.res) => last.res.pos = end
        /\ IsErr(last.res) => (n >= 1 /\ last.res = last.log[n].res)
        /\ Len(last.e.kids) = 0 => (IsOk(last.res) /\ last.res.pos = last.st)

(* an And whose first child consumed input and whose second child failed    *)
(* further on, a third child not being reached                              *)
C6_Witness ==
    /\ Returned("And") /\ IsErr(last.res) /\ Len(last.log) = 2
    /\ last.log[2].st.n > last.st.n
    /\ last.res.pos.n > last.log[2].st.n

(* C7: RuleName(name) at S fails with a missing-rule error at S when name   *)
(* is no key of the rule set, and otherwise returns the result of the       *)
(* expression registered under name, evaluated at S.                        *)
C7_RuleNameResolves ==
    Returned("RuleName") =>
        IF last.e.name \notin DOMAIN rules
        THEN /\ last.res = Error_from_status(last.st, <<"Missing rule: ", last.e.name>>)
             /\ last.log = <<>>
        ELSE /\ Len(last.log) = 1
             /\ last.log[1].e = rules[last.e.name] /\ last.log[1].st = last.st
             /\ Partial(last.res) = Partial(last.log[1].res)

(* a reference to a missing rule, evaluated after input was consumed *)
C7_Witness ==
    /\ Returned("RuleName") /\ last.e.name \notin DOMAIN rules
    /\ last.st.n > 0

LeadingAs ==
    CHOOSE k \in 0..5 :
        /\ k <= Len(text) /\ \A i \in 1..k : text[i] = "a"
        /\ (k = 5 \/ k = Len(text) \/ text[k + 1] # "a")

(* C9: references are resolved when parsing: with main = rep("a",1,5) rule2 *)
(* the parse succeeds exactly when rule2 is registered, whenever that was,  *)
(* and its expression matches after the a's; without rule2 it fails.        *)
C9_ResolvedAtParseTime ==
    (phase = "done" /\ "main" \in DOMAIN rules /\ rules["main"] = DocMain) =>
        (IsOk(result) <=>
            /\ "rule2" \in DOMAIN rules
            /\ LeadingAs >= 1
            /\ IsOk(atom_parse(text, Position(LeadingAs, 0, LeadingAs), rules["rule2"])))

(* the example of the documentation: main was given to the constructor with *)
(* rule2 undefined, rule2 was added afterwards, and "aabcd" parses          *)
C9_Witness ==
    /\ phase = "done" /\ IsOk(result)
    /\ DOMAIN rules0 = {"main"} /\ rules0["main"] = DocMain
    /\ added["main"] = None /\ added["rule2"] = Some(Lbcd)
    /\ text = <<"a", "a", "b", "c", "d">>

(* C10: rules_from_peg registers each rule name of the grammar text with    *)
(* the Expression its definition denotes, so that parse succeeds on the     *)
(* inputs the grammar matches: main = "hello" accepts "hello",              *)
(* main = "hello" " " "world" accepts "hello world", and                    *)
(* main = "hello" / "hola" accepts "hello" and "hola" and rejects "bye".    *)
C10_PegRulesDenoteGrammar ==
    (peg # <<>> /\ added = [x \in Names |-> None]) =>
        /\ (phase = "build" /\ peg = PegHello) =>
               rules = rules_macro(<<<<"main", Lit(Hello)>>>>)
        /\ (phase = "done" /\ peg = PegHello /\ text = Hello) => IsOk(result)
        /\ (phase = "done" /\ peg = PegHelloWorld /\ text = HelloWorld) => IsOk(result)
        /\ (phase = "done" /\ peg = PegHelloHola /\ text \in {Hello, Hola}) =>
               IsOk(result)
        /\ (phase = "done" /\ peg = PegHelloHola /\ text = Bye) => IsErr(result)

(* the state after parse(text, &parse_peg()) returned *)
Validated == phase = "done" /\ rules = parse_peg

(* C11: parse with the rule set parse_peg returns Err for every grammar      *)
(* text that holds a rule definition the grammar does not accept, whether    *)
(* it is the first definition of the text or a later one.                    *)
C11_MalformedPegIsErr ==
    (Validated /\ text \in MalformedPegs \cup {PegLaterBad}) => IsErr(result)

(* the rule definitions of a grammar text that has no "=" in its literals *)
Defs(t) == Cardinality({i \in 1..Len(t) : t[i] = "="})

(* C12: with parse_peg a text of several well-formed rule definitions        *)
(* parses, and the repetition of "and" never takes the name of the next      *)
(* definition: every successful "rule" spans exactly one definition, and     *)
(* "grammar" makes one iteration per definition and consumes the text.       *)
C12_RulePerDefinition ==
    (rules = parse_peg /\ text \in WellFormedPegs) =>
        /\ (Returned("RuleName") /\ last.e.name = "rule" /\ IsOk(last.res)) =>
               Defs(SubSeq(text, last.st.n + 1, last.res.pos.n)) = 1
        /\ (Returned("Repeat") /\ last.e = parse_peg["grammar"]) =>
               /\ IsOk(last.res) /\ last.res.pos.n = Len(text)
               /\ Cardinality({j \in Calls : IsOk(last.log[j].res)}) = Defs(text)
        /\ phase = "done" => IsOk(result)

(* validate_peg2, whose first definition goes on over three lines, parsed *)
C12_Witness ==
    Validated /\ text = ValidatePeg2 /\ IsOk(result) /\ ret.pos.n = Len(text)

(* C13: the rule set rules_from_peg parses a grammar text with accepts the   *)
(* texts parse_peg accepts and no others, and consumes the same prefix: a    *)
(* text parsed first by rules_from_peg and then with parse_peg has the same  *)
(* outcome both times.                                                       *)
C13_SameBootstrapGrammar ==
    (Validated /\ peg # <<>> /\ text = peg) =>
        /\ IsOk(pegparse) <=> IsOk(ret)
        /\ IsOk(ret) => ret.pos = pegparse.pos

C15_NeverPanics == phase # "panic"

(* the position after the characters of str, counted from pos *)
RECURSIVE advance_all(_, _)
advance_all(pos, str) ==
    IF str = <<>> THEN pos ELSE advance_all(advance(pos, Head(str)), Tail(str))

(* C16: parse_literal of atom.rs succeeds iff the characters of the input    *)
(* from offset pos.n on equal the literal; then pos.n grows by the number    *)
(* of characters of the literal, and each newline of the literal adds one    *)
(* to row and sets col to 0.                                                 *)
C16_LiteralCharForChar ==
    (phase = "atom" /\ Returned("Literal")) =>
        LET n == last.st.n
            len == Len(last.e.lit)
            equal == n + len <= Len(text) /\ SubSeq(text, n + 1, n + len) = last.e.lit
        IN /\ IsOk(last.res) <=> equal
           /\ IsOk(last.res) => last.res.pos = advance_all(last.st, last.e.lit)

(* C17: parse_dot of atom.rs succeeds iff pos.n is smaller than the number   *)
(* of characters of the input and then adds one to pos.n, so that no         *)
(* sequence of successful atoms takes pos.n beyond the number of             *)
(* characters of the input.                                                  *)
C17_DotWithinInput ==
    phase = "atom" =>
        /\ Returned("Dot") =>
              /\ IsOk(last.res) <=> last.st.n < Len(text)
              /\ IsOk(last.res) => last.res.pos.n = last.st.n + 1
        /\ ret.pos.n <= Len(text)

(* the evaluation that returned last was one by parse_expr *)
ByParseExpr == last.res.started # None

(* C18: a successful evaluation returns a Status whose pos.n is not smaller  *)
(* than the pos.n of the Status it started from, and the Started that        *)
(* parse_expr returns with it is the pos.n it started from.                  *)
C18_StartedAndConsumed ==
    (phase # "atom" /\ IsOk(last.res)) =>
        /\ last.res.pos.n >= last.st.n
        /\ ByParseExpr => last.res.started = Some(last.st.n)

(* parse_expr returned a success that consumed input, begun after the start *)
(* of the text                                                              *)
C18_Witness ==
    /\ phase = "run" /\ IsOk(last.res) /\ ByParseExpr
    /\ last.st.n > 0 /\ last.res.pos.n > last.st.n

(* the strings of description d all occur in description e *)
Contains(e, d) == \A i \in 1..Len(d) : \E k \in 1..Len(e) : e[k] = d[i]

(* C19: when the expression registered under a name fails, the error that    *)
(* parse_rule_name returns carries the name of the rule in its description.  *)
C19_RuleNameInError ==
    (Returned("RuleName") /\ last.e.name \in DOMAIN rules /\ IsErr(last.res)) =>
        Contains(last.res.descr, <<last.e.name>>)

(* C20: when all alternatives of an Or fail, the error of parse_or has the   *)
(* greatest pos.n of their errors and its description contains the           *)
(* description of every error at that position.                              *)
C20_TiedErrorsMerged ==
    (Returned("Or") /\ IsErr(last.res)) =>
        LET deepest == MaxOf({last.log[j].res.pos.n : j \in Calls}) IN
        /\ last.res.pos.n = deepest
        /\ \A j \in Calls :
              last.log[j].res.pos.n = deepest =>
                  Contains(last.res.descr, last.log[j].res.descr)

(* C21: when parse_repeat fails because the inner expression failed after    *)
(* fewer than min successful iterations, the position of its error is the    *)
(* position the Repeat started from.                                         *)
C21_RepeatErrorAtStart ==
    (phase # "atom" /\ Returned("Repeat") /\ IsErr(last.res)) =>
        last.res.pos = last.st

(* C22: parse_repeat of expression.rs returns Ok whenever the inner          *)
(* expression fails after k >= min successful iterations, for every max, and *)
(* the Status it returns is that of the last successful iteration, or the    *)
(* Status it started from when k = 0 (an optional element whose expression   *)
(* does not match succeeds without consuming).                               *)
C22_RepeatOkAfterMin ==
    (phase = "expr" /\ Returned("Repeat") /\ IsErr(last.log[Len(last.log)].res)
        /\ Len(last.log) - 1 >= last.e.min) =>
            LET k == Len(last.log) - 1 IN
            /\ IsOk(last.res)
            /\ last.res.pos = IF k = 0 THEN last.st ELSE last.log[k].res.pos

(* C23: deep_error(Some(e1), e2) returns the error with the greater          *)
(* position; when the positions are equal it returns an error at that        *)
(* position whose description contains both descriptions; and               *)
(* deep_error(None, e2) returns e2 unchanged.  The position of the result is *)
(* always the greatest of the positions given.                               *)
C23_DeepErrorDeepest ==
    (phase = "expr" /\ Returned("none") /\ Len(last.log) = 2) =>
        LET e1 == last.log[1].res
            e2 == last.log[2].res
            r == last.res
        IN IF e1 = NoRet
           THEN r = e2
           ELSE /\ e1.pos.n > e2.pos.n => r = e1
                /\ e1.pos.n < e2.pos.n => r = e2
                /\ e1.pos.n = e2.pos.n =>
                       /\ IsErr(r)
                       /\ r.pos = e1.pos
                       /\ Contains(r.descr, e1.descr)
                       /\ Contains(r.descr, e2.descr)
                /\ r.pos.n = MaxOf({e1.pos.n, e2.pos.n})

(* two errors at the same position with different descriptions were merged *)
C23_Witness ==
    /\ phase = "expr" /\ Returned("none") /\ Len(last.log) = 2
    /\ IsErr(last.log[1].res)
    /\ last.log[1].res.pos = last.log[2].res.pos
    /\ last.log[1].res.descr # last.log[2].res.descr
    /\ last.res.pos.n > 0

(* C24: while a grammar text is parsed with rules2parse_peg, the rule set    *)
(* rules_from_peg uses, no reference to a rule that is not defined is ever   *)
(* evaluated and no error is a missing-rule error, although the rule set     *)
(* refers to the name "eof", which it does not define.                       *)
C24_EofNeverEvaluated ==
    (phase = "peg") =>
        /\ \A i \in 1..Len(stack) :
              stack[i].e.tag = "RuleName" => stack[i].e.name \in DOMAIN rules
        /\ Returned("RuleName") => last.e.name \in DOMAIN rules
        /\ IsErr(last.res) => ~Contains(last.res.descr, <<"Missing rule: ">>)
        /\ IsErr(ret) => ~Contains(ret.descr, <<"Missing rule: ">>)

(* the Or whose second alternative is the undefined eof has returned, after *)
(* input was consumed                                                       *)
C24_Witness ==
    /\ phase = "peg"
    /\ rules = rules2parse_peg
    /\ "eof" \notin DOMAIN rules
    /\ Returned("Or") /\ Len(last.e.kids) = 2 /\ last.e.kids[2] = RuleName("eof")
    /\ IsOk(last.res)
    /\ last.st.n > 0

(* every iteration of a Repeat that has succeeded, in a call that is still  *)
(* running, ended after the position it started from                        *)
RepeatsConsume ==
    \A i \in 1..Len(stack) :
        stack[i].e.tag = "Repeat" =>
            \A j \in 1..Len(stack[i].log) :
                IsOk(stack[i].log[j].res) =>
                    stack[i].log[j].res.pos.n > stack[i].log[j].st.n

(* a rule that is entered again while it is still running is entered at a  *)
(* later position                                                           *)
NoLeftRecursion ==
    \A i, j \in 1..Len(stack) :
        (i < j /\ stack[i].e.tag = "RuleName" /\ stack[j].e = stack[i].e) =>
            stack[j].st0.n > stack[i].st0.n

(* C25: parsing a text with the rule set parse_peg() terminates: every       *)
(* Repeat of that rule set consumes at least one character in each           *)
(* iteration that succeeds, every rule that is entered again while it runs   *)
(* is entered after at least one more character was consumed, and the call  *)
(* of the start rule returns.                                                *)
C25_ParsePegTerminates ==
    /\ [](RepeatsConsume /\ NoLeftRecursion)
    /\ <>(stack = <<>> /\ Pending)

(* the parse of a grammar text with parentheses, which goes round the cycle *)
(* of rule references, has ended with Ok                                    *)
C25_Witness ==
    /\ phase = "done"
    /\ rules = parse_peg
    /\ IsOk(result)
    /\ \E i \in 1..Len(text) : text[i] = "("
=============================================================================
